---- MODULE Spec2Model ----
(***************************************************************************)
(* Model of python/mxnet/gluon/data/batchify.py: the batchify functors     *)
(* Stack, Pad (with _pad_arrs_to_max_length) and Group.                    *)
(*                                                                         *)
(* Numbers are fixed-point: the integer h stands for the number h/2, so    *)
(* 2 is 1, 3 is 1.5, -3 is -1.5.  An element type is "int" or "float";     *)
(* a value of type "int" is always even.  Array indices are 0-based        *)
(* tuples, shapes are sequences of dimensions.                             *)
(***************************************************************************)
EXTENDS Integers, Sequences, FiniteSets, TLC

VARIABLES pad, padState, ctor, data, last, nCalls, warnLog, groupFn

vars == <<pad, padState, ctor, data, last, nCalls, warnLog, groupFn>>

\* ------------------------------------------------------------------ bounds
\* samples per batch
MaxN == 2
\* largest dimension of a sample
MaxDim == 2
\* calls made on one Pad instance
MaxCalls == 2
\* sub-functors of a Group
MaxAttrs == 2

None == "None"

Min(a, b) == IF a < b THEN a ELSE b

RECURSIVE SeqMax(_)
SeqMax(s) ==
  IF Len(s) = 1 THEN s[1]
  ELSE LET m == SeqMax(Tail(s)) IN IF s[1] > m THEN s[1] ELSE m

\* ------------------------------------------------------------ numpy arrays
\* numpy conversion of a number to an element type: to "int" truncates
\* toward zero, to "float" keeps the value.
Cast(h, dt) ==
  IF dt = "int"
  THEN IF h >= 0 THEN (h \div 2) * 2 ELSE -(((-h) \div 2) * 2)
  ELSE h

\* all index tuples of an array of the given shape
Indices(shape) ==
  IF Len(shape) = 0 THEN {<<>>}
  ELSE IF Len(shape) = 1 THEN {<<a>> : a \in 0..(shape[1] - 1)}
  ELSE IF Len(shape) = 2
       THEN {<<a, b>> : a \in 0..(shape[1] - 1), b \in 0..(shape[2] - 1)}
  ELSE {<<a, b, c>> : a \in 0..(shape[1] - 1), b \in 0..(shape[2] - 1),
                      c \in 0..(shape[3] - 1)}

\* numpy drops leading dimensions of size 1 of an assigned value that has
\* more dimensions than its target
RECURSIVE StripOnes(_, _)
StripOnes(V, n) ==
  IF Len(V) > n /\ V[1] = 1 THEN StripOnes(Tail(V), n) ELSE V

\* can a value of shape V be assigned (broadcast) into a target of shape T
BroadcastOK(V, T) ==
  LET W == StripOnes(V, Len(T))
  IN /\ Len(W) <= Len(T)
     /\ \A k \in 1..Len(W) : W[k] = T[Len(T) - Len(W) + k] \/ W[k] = 1

\* the index of the value element that lands on target index t
SrcIdx(V, T, t) ==
  LET W == StripOnes(V, Len(T))
      dropped == Len(V) - Len(W)
  IN [q \in 1..Len(V) |->
        IF q <= dropped \/ V[q] = 1 THEN 0
        ELSE t[Len(T) - Len(W) + (q - dropped)]]

NoArr == [dtype |-> None, shape |-> <<>>, val |-> <<>>]

\* a[pad_axis] of a Python sequence of length rank: the 0-based position,
\* or -1 when the index is out of range
AxisOf(pad_axis, rank) ==
  LET a == IF pad_axis < 0 THEN pad_axis + rank ELSE pad_axis
  IN IF a >= 0 /\ a < rank THEN a ELSE -1

\* ------------------------------------------------ _pad_arrs_to_max_length
\* dtype after the isinstance chain: taken from the first sample only when
\* that sample is an NDArray or a numpy array; a list leaves it untouched
PadDtype(arrs, dtype) ==
  IF arrs[1].kind \in {"nd", "np"} /\ dtype = None THEN arrs[1].dtype ELSE dtype

\* error of the conversion of the samples to numpy arrays, "none" if none
PadConvertExc(arrs) ==
  IF arrs[1].kind = "nd"
  THEN IF \E i \in 1..Len(arrs) : arrs[i].kind # "nd"
       THEN "AttributeError" ELSE "none"
  ELSE IF arrs[1].kind = "np" THEN "none"
  ELSE IF \E i \in 1..Len(arrs) : arrs[i].kind \in {"glist", "tuple"}
       THEN "ValueError" ELSE "none"

OriginalLength(arrs, pad_axis) ==
  [i \in 1..Len(arrs) |-> arrs[i].shape[AxisOf(pad_axis, Len(arrs[i].shape)) + 1]]

RetShape(arrs, pad_axis, max_size) ==
  LET s0 == arrs[1].shape
      ax0 == AxisOf(pad_axis, Len(s0))
  IN <<Len(arrs)>> \o [k \in 1..Len(s0) |-> IF k = ax0 + 1 THEN max_size ELSE s0[k]]

\* element type of the buffer np.full allocates: dtype, or the type of the
\* fill value when dtype is None
FullDtype(pad_val, dtype) == IF dtype = None THEN pad_val.ty ELSE dtype

\* shape of ret[i:i+1, slices]: the slices cover arr.ndim dimensions and
\* restrict the pad axis of arr to 0..length
RegionShape(ret_shape, arr, pad_axis) ==
  LET r == Len(arr.shape)
      ax == AxisOf(pad_axis, r)
  IN [k \in 1..Len(ret_shape) |->
        IF k = 1 THEN 1
        ELSE IF k = ax + 2 THEN Min(arr.shape[ax + 1], ret_shape[k])
        ELSE ret_shape[k]]

\* error raised by the copy of sample i into the buffer, "none" if none
RowExc(ret_shape, arr, pad_axis, max_size) ==
  LET r == Len(arr.shape)
      len == arr.shape[AxisOf(pad_axis, r) + 1]
  IN IF len = max_size
     THEN IF BroadcastOK(arr.shape, Tail(ret_shape)) THEN "none" ELSE "ValueError"
     ELSE IF len = 0 THEN "none"
     ELSE IF 1 + r > Len(ret_shape) THEN "IndexError"
     ELSE IF BroadcastOK(arr.shape, RegionShape(ret_shape, arr, pad_axis))
          THEN "none" ELSE "ValueError"

\* the element of the buffer at index t (t[1] is the row) after the copy
\* loop; fillv is the value np.full put there
RowValueBad(ret_shape, arr, pad_axis, max_size, t, fillv, dt) ==
  LET r == Len(arr.shape)
      ax == AxisOf(pad_axis, r)
      len == arr.shape[ax + 1]
  IN IF len = max_size
     THEN Cast(arr.val[SrcIdx(arr.shape, Tail(ret_shape), Tail(t))], dt)
     ELSE fillv
RowValue(ret_shape, arr, pad_axis, max_size, t, fillv, dt) ==
  LET r == Len(arr.shape)
      ax == AxisOf(pad_axis, r)
      len == arr.shape[ax + 1]
  IN IF len = max_size
     THEN Cast(arr.val[SrcIdx(arr.shape, Tail(ret_shape), Tail(t))], dt)
     ELSE IF len = 0 THEN fillv
     ELSE IF t[ax + 2] < len
          THEN LET reg == RegionShape(ret_shape, arr, pad_axis)
                   rt == [k \in 1..Len(t) |-> IF k = 1 THEN 0 ELSE t[k]]
               IN Cast(arr.val[SrcIdx(arr.shape, reg, rt)], dt)
          ELSE fillv

\* the routine once the buffer is allocated: the copy loop and the result
PadFill(arrs, pad_axis, original_length, max_size, ret_shape, dt, fillv) ==
  LET bad == {i \in 1..Len(arrs) :
                RowExc(ret_shape, arrs[i], pad_axis, max_size) # "none"}
  IN IF bad # {}
     THEN [exc |-> RowExc(ret_shape, arrs[CHOOSE i \in bad : \A j \in bad : i <= j],
                          pad_axis, max_size),
           ret |-> NoArr, original_length |-> <<>>]
     ELSE [exc |-> "none",
           ret |-> [dtype |-> dt, shape |-> ret_shape,
                    val |-> [t \in Indices(ret_shape) |->
                               RowValue(ret_shape, arrs[t[1] + 1], pad_axis,
                                        max_size, t, fillv, dt)]],
           original_length |-> original_length]

\* the routine from max_size on
PadAlloc(arrs, pad_axis, pad_val, dt, original_length, max_size) ==
  PadFill(arrs, pad_axis, original_length, max_size,
          RetShape(arrs, pad_axis, max_size), dt, Cast(pad_val.v, dt))

PadArrs(arrs, pad_axis, pad_val, use_shared_mem, dtype) ==
  IF PadConvertExc(arrs) # "none"
  THEN [exc |-> PadConvertExc(arrs), ret |-> NoArr, original_length |-> <<>>]
  ELSE IF \E i \in 1..Len(arrs) : AxisOf(pad_axis, Len(arrs[i].shape)) = -1
  THEN [exc |-> "IndexError", ret |-> NoArr, original_length |-> <<>>]
  ELSE PadAlloc(arrs, pad_axis, pad_val,
                FullDtype(pad_val, PadDtype(arrs, dtype)),
                OriginalLength(arrs, pad_axis),
                SeqMax(OriginalLength(arrs, pad_axis)))

\* ---------------------------------------------------------------- class Pad
\* the module imports numpy, Context, cpu, ndarray, numpy and is_np_array;
\* the name warnings is not among them
WarningsImported == FALSE

\* outcome of a statement warnings.warn(...)
WarningsWarn == IF WarningsImported THEN "none" ELSE "NameError"

NoVal == [ty |-> None, v |-> 0]
NoArgs == [axis |-> 0, pad_val |-> NoVal, ret_length |-> FALSE,
           dtype |-> None, use_shared_mem |-> FALSE]
NoPad == [axis |-> 0, pad_val |-> NoVal, ret_length |-> FALSE, dtype |-> None,
          use_shared_mem |-> FALSE, warned |-> FALSE]

\* the fields Pad.__init__ assigns
PadFields(a) ==
  [axis |-> a.axis,
   pad_val |-> IF a.pad_val.ty = None THEN [ty |-> "int", v |-> 0] ELSE a.pad_val,
   ret_length |-> a.ret_length, dtype |-> a.dtype,
   use_shared_mem |-> a.use_shared_mem, warned |-> FALSE]

\* exception raised by Pad.__init__, "none" if it returns
PadInitExc(a) == IF a.pad_val.ty = None THEN WarningsWarn ELSE "none"

\* self._warned after Pad.__call__(d)
WarnedAfterBad(p, d) ==
  IF Len(d) = 0 THEN p.warned ELSE d[1].kind = "nd"
WarnedAfter(p, d) ==
  IF Len(d) = 0 THEN p.warned
  ELSE IF d[1].kind = "nd" /\ ~p.warned THEN TRUE ELSE p.warned

\* is the first sample an NDArray, a numpy array or a list
PadAcceptsBad(s) == s.kind \in {"nd", "np", "list", "glist", "tuple"}
PadAccepts(s) == s.kind \in {"nd", "np", "list", "glist"}

\* what Pad.__call__ hands back given the two results of the routine
PadReturnBad(ret_length, r) ==
  IF ret_length
  THEN [form |-> "pair", batch |-> r.ret, lengths |-> Tail(r.original_length)]
  ELSE [form |-> "single", batch |-> r.ret, lengths |-> <<>>]
PadReturn(ret_length, r) ==
  IF ret_length
  THEN [form |-> "pair", batch |-> r.ret, lengths |-> r.original_length]
  ELSE [form |-> "single", batch |-> r.ret, lengths |-> <<>>]

NoRet == [form |-> "none", batch |-> NoArr, lengths |-> <<>>]

\* the outcome of Pad.__call__: the exception ("none" when it returns),
\* whether the padding routine was entered, the number of warnings issued,
\* the flag and the returned value
PadOut(e, reached, w, warned, r) ==
  [exc |-> e, reached |-> reached, warns |-> w, warned |-> warned,
   form |-> r.form, batch |-> r.batch, lengths |-> r.lengths]

\* Pad.__call__ from the call of the padding routine on; r is its result
PadAfterRoutine(p, w, warned, r) ==
  IF r.exc # "none" THEN PadOut(r.exc, TRUE, w, warned, NoRet)
  ELSE PadOut("none", TRUE, w, warned, PadReturn(p.ret_length, r))

\* Pad.__call__
PadCallRes(p, d) ==
  IF Len(d) = 0 THEN PadOut("IndexError", FALSE, 0, p.warned, NoRet)
  ELSE IF d[1].kind = "nd" /\ ~p.warned /\ WarningsWarn # "none"
  THEN PadOut(WarningsWarn, FALSE, 0, WarnedAfter(p, d), NoRet)
  ELSE IF PadAccepts(d[1])
  THEN PadAfterRoutine(p, IF d[1].kind = "nd" /\ ~p.warned THEN 1 ELSE 0,
                       WarnedAfter(p, d),
                       PadArrs(d, p.axis, p.pad_val, p.use_shared_mem, p.dtype))
  ELSE PadOut("NotImplementedError", FALSE,
              IF d[1].kind = "nd" /\ ~p.warned THEN 1 ELSE 0, WarnedAfter(p, d), NoRet)

\* -------------------------------------------------------------- class Stack
NoRes == [exc |-> "none", ty |-> "none", arr |-> NoArr, lengths |-> <<>>, items |-> <<>>]

ResExc(e) == [NoRes EXCEPT !.exc = e]

\* number of items an iteration over the sample yields
IterLen(s) == IF s.kind \in {"tuple", "glist"} THEN Len(s.items) ELSE s.shape[1]

\* item j (0-based) of an iteration over the sample
Sub(s, j) ==
  IF s.kind \in {"tuple", "glist"} THEN s.items[j + 1]
  ELSE IF Len(s.shape) = 1
  THEN [kind |-> "scalar", dtype |-> s.dtype, shape |-> <<>>,
        val |-> (<<>> :> s.val[<<j>>]), items |-> <<>>]
  ELSE [kind |-> s.kind, dtype |-> s.dtype, shape |-> Tail(s.shape),
        val |-> [idx \in Indices(Tail(s.shape)) |-> s.val[<<j>> \o idx]],
        items |-> <<>>]

RECURSIVE SeqMin(_)
SeqMin(s) ==
  IF Len(s) = 1 THEN s[1]
  ELSE LET m == SeqMin(Tail(s)) IN IF s[1] < m THEN s[1] ELSE m

\* the array holding the samples along a new leading axis
Stacked(d, dt) ==
  [dtype |-> dt, shape |-> <<Len(d)>> \o d[1].shape,
   val |-> [t \in Indices(<<Len(d)>> \o d[1].shape) |->
              Cast(d[t[1] + 1].val[Tail(t)], dt)]]

SameShapes(d) == \A i \in 1..Len(d) : d[i].shape = d[1].shape

\* does the first sample take the zip branch of Stack.__call__
StackZips(s) == s.kind \in {"tuple", "list", "glist"}

\* Stack.__call__
RECURSIVE StackRes(_)
StackRes(d) ==
  IF Len(d) = 0 THEN ResExc("IndexError")
  ELSE IF d[1].kind = "nd"
  THEN IF (\A i \in 1..Len(d) : d[i].kind = "nd") /\ SameShapes(d)
       THEN [NoRes EXCEPT !.ty = "array", !.arr = Stacked(d, d[1].dtype)]
       ELSE ResExc("MXNetError")
  ELSE IF StackZips(d[1])
  THEN IF \E i \in 1..Len(d) : d[i].kind = "scalar" THEN ResExc("TypeError")
       ELSE LET m == SeqMin([i \in 1..Len(d) |-> IterLen(d[i])])
                rs == [j \in 1..m |-> StackRes([i \in 1..Len(d) |-> Sub(d[i], j - 1)])]
                bad == {j \in 1..m : rs[j].exc # "none"}
            IN IF bad # {}
               THEN ResExc(rs[CHOOSE j \in bad : \A k \in bad : j <= k].exc)
               ELSE [NoRes EXCEPT !.ty = "list", !.items = rs]
  ELSE IF (\A i \in 1..Len(d) : d[i].kind \in {"np", "scalar", "list"}) /\ SameShapes(d)
       THEN [NoRes EXCEPT !.ty = "array",
               !.arr = Stacked(d, IF \E i \in 1..Len(d) : d[i].dtype = "float"
                                  THEN "float" ELSE "int")]
       ELSE ResExc("ValueError")

\* -------------------------------------------------------------- class Group
\* one sub-functor applied to one attribute column; p is the Pad instance
FnApply(fn, p, col) ==
  IF fn = "Stack"
  THEN LET r == StackRes(col) IN [exc |-> r.exc, warned |-> p.warned, res |-> r]
  ELSE IF fn = "Pad"
  THEN LET r == PadCallRes(p, col)
       IN [exc |-> r.exc, warned |-> r.warned,
           res |-> [exc |-> r.exc,
                    ty |-> IF r.form = "pair" THEN "pair"
                           ELSE IF r.form = "single" THEN "array" ELSE "none",
                    arr |-> r.batch, lengths |-> r.lengths, items |-> <<>>]]
  ELSE [exc |-> "none", warned |-> p.warned,
        res |-> [NoRes EXCEPT !.ty = "list", !.items = col]]

\* [ele[i] for ele in data]
ColumnBad(d, i) == [j \in 1..Len(d) |-> d[Len(d) + 1 - j].items[i]]
Column(d, i) == [j \in 1..Len(d) |-> d[j].items[i]]

\* the attribute count checked against the number of sub-functors
GroupChecked(d, k) == Len(d[1].items) = k

\* self._warned of the Pad instance when the loop of Group.__call__ reaches
\* sub-functor i, every earlier sub-functor having been called
RECURSIVE WarnedAt(_, _, _, _)
WarnedAt(fns, d, p, i) ==
  IF i = 1 THEN p.warned
  ELSE IF fns[i - 1] = "Pad" /\ ~(\E j \in 1..Len(d) : Len(d[j].items) < i - 1)
       THEN WarnedAfter([p EXCEPT !.warned = WarnedAt(fns, d, p, i - 1)], Column(d, i - 1))
       ELSE WarnedAt(fns, d, p, i - 1)

\* does the list comprehension for column i raise: a sample has no item i
ColumnExc(d, i) == \E j \in 1..Len(d) : Len(d[j].items) < i

\* iteration i of the loop of Group.__call__
GroupStep(fns, d, p, i) ==
  FnApply(fns[i], [p EXCEPT !.warned = WarnedAt(fns, d, p, i)], Column(d, i))

\* what iteration i does if the loop gets to it
GroupSteps(fns, d, p) ==
  [i \in 1..Len(fns) |->
     IF ColumnExc(d, i)
     THEN [exc |-> "IndexError", warned |-> WarnedAt(fns, d, p, i), res |-> NoRes,
           called |-> FALSE]
     ELSE [exc |-> GroupStep(fns, d, p, i).exc,
           warned |-> GroupStep(fns, d, p, i).warned,
           res |-> GroupStep(fns, d, p, i).res, called |-> TRUE]]

CallLog(d, n) == [i \in 1..n |-> [fn |-> i, col |-> Column(d, i)]]

\* the loop ends at the first iteration i0 that raises
GroupFail(d, st, i0) ==
  [exc |-> st[i0].exc, ret |-> <<>>,
   log |-> CallLog(d, IF st[i0].called THEN i0 ELSE i0 - 1),
   warned |-> st[i0].warned]

\* the loop of Group.__call__ given its iterations
GroupOut(d, p, st) ==
  IF \A i \in 1..Len(st) : st[i].exc = "none"
  THEN [exc |-> "none", ret |-> [i \in 1..Len(st) |-> st[i].res],
        log |-> CallLog(d, Len(st)),
        warned |-> IF Len(st) = 0 THEN p.warned ELSE st[Len(st)].warned]
  ELSE GroupFail(d, st, CHOOSE i \in 1..Len(st) :
                          st[i].exc # "none" /\ \A j \in 1..(i - 1) : st[j].exc = "none")

GroupRun(fns, d, p) == GroupOut(d, p, GroupSteps(fns, d, p))

\* Group.__call__
GroupRes(fns, d, p) ==
  IF Len(d) = 0
  THEN [exc |-> "IndexError", ret |-> <<>>, log |-> <<>>, warned |-> p.warned]
  ELSE IF ~GroupChecked(d, Len(fns))
  THEN [exc |-> "AssertionError", ret |-> <<>>, log |-> <<>>, warned |-> p.warned]
  ELSE GroupRun(fns, d, p)

\* ------------------------------------------------------------------ inputs
\* linear position of an index tuple, to give every element its own value
Lin(idx) ==
  IF Len(idx) = 0 THEN 0
  ELSE IF Len(idx) = 1 THEN idx[1]
  ELSE idx[1] * (MaxDim + 1) + idx[2]

\* element of sample j at idx: the whole number 10j + position + 1, plus one
\* half for a float sample, negated for even j
Elem(dtype, j, idx) ==
  LET h == 2 * (10 * j + Lin(idx) + 1) + (IF dtype = "float" THEN 1 ELSE 0)
  IN IF j % 2 = 0 THEN -h ELSE h

MkArr(kind, dtype, shape, j) ==
  [kind |-> kind, dtype |-> dtype, shape |-> shape,
   val |-> [idx \in Indices(shape) |-> Elem(dtype, j, idx)], items |-> <<>>]

MkScalar(dtype, j) == MkArr("scalar", dtype, <<>>, j)

\* a sample grouping two attributes, a list of numbers and a label, as a
\* tuple ("tuple") or as a list ("glist")
MkGrouped(kind, j) ==
  [kind |-> kind, dtype |-> None, shape |-> <<>>, val |-> <<>>,
   items |-> <<MkArr("list", "int", <<j>>, j), MkScalar("int", j)>>]

\* one-dimensional samples, and two-dimensional ones of one or two rows
Shapes ==
  {<<a>> : a \in 0..MaxDim} \cup {<<a, b>> : a \in 1..2, b \in 0..MaxDim}

Dtypes == {"int", "float"}

\* the kinds of array samples with their element types; an NDArray is float
\* unless told otherwise
KindDtypes ==
  {<<"nd", "float">>, <<"np", "int">>, <<"np", "float">>,
   <<"list", "int">>, <<"list", "float">>}

\* np.asarray gives a list without elements the element type float
MkSample(kind, dtype, shape, j) ==
  MkArr(kind, IF kind = "list" /\ Indices(shape) = {} THEN "float" ELSE dtype, shape, j)

\* batches of n samples of one kind: the first of shape a, the others of
\* shape b
ArrayBatches ==
  {[j \in 1..n |-> MkSample(kd[1], kd[2], IF j = 1 THEN a ELSE b, j)] :
     n \in 1..MaxN, a \in Shapes, b \in Shapes, kd \in KindDtypes}

OtherBatches ==
  {[j \in 1..n |-> MkGrouped(k, j)] : n \in 1..MaxN, k \in {"tuple", "glist"}}
  \cup {[j \in 1..n |-> MkScalar(dt, j)] : n \in 1..MaxN, dt \in Dtypes}
  \cup {<<>>}

PadBatches == ArrayBatches \cup OtherBatches

\* no pad value, the integer 0, the number 0.5
PadVals == {NoVal, [ty |-> "int", v |-> 0], [ty |-> "float", v |-> 1]}

CtorArgs ==
  [axis : {0, 1, -1}, pad_val : PadVals, ret_length : BOOLEAN,
   dtype : {None, "int"}, use_shared_mem : BOOLEAN]

\* the constructor calls of the padding runs: the memory context does not
\* enter the computation of the batch
PadArgs == {a \in CtorArgs : ~a.use_shared_mem}

\* ------------------------------------------------------------------ state
NoLast == [op |-> "none", exc |-> "none", reached |-> FALSE, form |-> "none",
           batch |-> NoArr, lengths |-> <<>>, items |-> <<>>, log |-> <<>>,
           warnedBefore |-> FALSE]

TypeOK ==
  /\ padState \in {"none", "ok", "raised"}
  /\ nCalls \in 0..MaxCalls
  /\ pad.warned \in BOOLEAN

Init ==
  /\ pad = NoPad
  /\ padState = "none"
  /\ ctor = NoArgs
  /\ data \in PadBatches
  /\ last = NoLast
  /\ nCalls = 0
  /\ warnLog = [ctor |-> 0, nd |-> 0]
  /\ groupFn = <<>>

\* p = Pad(axis, pad_val, ret_length, dtype, use_shared_mem)
PadInit ==
  /\ padState = "none"
  /\ \E a \in PadArgs :
       /\ ctor' = a
       /\ pad' = PadFields(a)
       /\ padState' = IF PadInitExc(a) = "none" THEN "ok" ELSE "raised"
       /\ last' = [NoLast EXCEPT !.op = "Pad.__init__", !.exc = PadInitExc(a)]
       /\ warnLog' = [warnLog EXCEPT
                        !.ctor = @ + (IF a.pad_val.ty = None /\ PadInitExc(a) = "none"
                                      THEN 1 ELSE 0)]
  /\ UNCHANGED <<data, nCalls, groupFn>>

\* p(d)
PadCallOn(d) ==
  /\ padState = "ok"
  /\ nCalls < MaxCalls
  /\ LET r == PadCallRes(pad, d)
     IN /\ pad' = [pad EXCEPT !.warned = r.warned]
        /\ last' = [NoLast EXCEPT !.op = "Pad.__call__", !.exc = r.exc,
                                  !.reached = r.reached, !.form = r.form,
                                  !.batch = r.batch, !.lengths = r.lengths,
                                  !.warnedBefore = pad.warned]
        /\ warnLog' = [warnLog EXCEPT !.nd = @ + r.warns]
  /\ nCalls' = nCalls + 1
  /\ UNCHANGED <<padState, ctor, groupFn>>

PadCall == PadCallOn(data) /\ UNCHANGED data

Next == PadInit \/ PadCall

Spec == Init /\ [][Next]_vars


\* ---------------------------------------------------- claims about Pad
IsArrayBatch(d) ==
  Len(d) > 0 /\ \A i \in 1..Len(d) : d[i].kind \in {"nd", "np", "list"}

\* the samples agree on rank and on every dimension except the pad axis
Agree(d, axis) ==
  /\ IsArrayBatch(d)
  /\ AxisOf(axis, Len(d[1].shape)) # -1
  /\ \A i \in 1..Len(d) :
       /\ Len(d[i].shape) = Len(d[1].shape)
       /\ \A k \in 1..Len(d[1].shape) :
            k # AxisOf(axis, Len(d[1].shape)) + 1 => d[i].shape[k] = d[1].shape[k]

LenAt(s, axis) == s.shape[AxisOf(axis, Len(s.shape)) + 1]

MaxLen(d, axis) == SeqMax([i \in 1..Len(d) |-> LenAt(d[i], axis)])

PaddedShape(d, axis) ==
  <<Len(d)>> \o [k \in 1..Len(d[1].shape) |->
                   IF k = AxisOf(axis, Len(d[1].shape)) + 1
                   THEN MaxLen(d, axis) ELSE d[1].shape[k]]

PadReturned == last.op = "Pad.__call__" /\ last.exc = "none"

C2_AsStated ==
  (last.op = "Pad.__init__" /\ ctor.pad_val.ty = None) =>
    /\ last.exc = "none"
    /\ padState = "ok"
    /\ pad.pad_val = [ty |-> "int", v |-> 0]
    /\ warnLog.ctor = 1

C6_AsStated ==
  (last.op = "Pad.__call__" /\ IsArrayBatch(data) /\ ~Agree(data, pad.axis)) =>
    (last.exc # "none" /\ last.form = "none")

\* C8: a call that returns gives the pair (batch, lengths) when ret_length
\* is set and the batch alone otherwise; the lengths are the N sizes of the
\* samples on the pad axis in input order; the batch is the one the other
\* mode returns.
C8_ReturnForm ==
  PadReturned =>
    /\ pad.ret_length =>
         /\ last.form = "pair"
         /\ Len(last.lengths) = Len(data)
         /\ \A i \in 1..Len(data) : last.lengths[i] = LenAt(data[i], pad.axis)
    /\ ~pad.ret_length => (last.form = "single" /\ last.lengths = <<>>)
    /\ LET other == PadCallRes([pad EXCEPT !.ret_length = ~@], data)
       IN other.exc = "none" /\ other.batch = last.batch

C8_Witness ==
  /\ PadReturned /\ pad.ret_length /\ Len(data) = 2
  /\ last.lengths = <<2, 1>>

\* C10 as stated: without an explicit dtype the element type of the batch
\* is that of the first sample, whatever the kind of the samples and the
\* type of the pad value, and with one it is the given dtype; lists of
\* non-integer numbers padded with the integer 0 keep their values.
C10_AsStated ==
  (PadReturned /\ IsArrayBatch(data)) =>
    /\ ctor.dtype = None => last.batch.dtype = data[1].dtype
    /\ ctor.dtype # None => last.batch.dtype = ctor.dtype
    /\ (ctor.dtype = None /\ data[1].kind = "list" /\ Agree(data, pad.axis)
         /\ (\A i \in 1..Len(data) : data[i].dtype = "float")
         /\ pad.pad_val = [ty |-> "int", v |-> 0]) =>
         \A t \in Indices(last.batch.shape) :
           LET s == data[t[1] + 1]
           IN t[AxisOf(pad.axis, Len(s.shape)) + 2] < LenAt(s, pad.axis) =>
                last.batch.val[t] = s.val[Tail(t)]


\* ------------------------------------------- calls on one Pad instance
\* batches of every kind whose sample j has length j on its first axis
CallShape(r, j) == IF r = 1 THEN <<Min(j, MaxDim)>> ELSE <<Min(j, MaxDim), 1>>

CallBatches ==
  {[j \in 1..n |-> MkSample(kd[1], kd[2], CallShape(r, j), j)] :
     n \in 1..MaxN, kd \in KindDtypes, r \in 1..2}
  \cup OtherBatches

InitCalls ==
  /\ \E a \in CtorArgs :
       /\ a.pad_val.ty # None
       /\ ctor = a
       /\ pad = PadFields(a)
  /\ padState = "ok"
  /\ data = <<>>
  /\ last = NoLast
  /\ nCalls = 0
  /\ warnLog = [ctor |-> 0, nd |-> 0]
  /\ groupFn = <<>>

PadCallAny == \E d \in CallBatches : PadCallOn(d) /\ data' = d

NextCalls == PadCallAny

SpecCalls == InitCalls /\ [][NextCalls]_vars

\* C9: the flag _warned starts false; a call sets it exactly when its first
\* sample is an NDArray, leaves it as it is for any other first sample and
\* never clears it; the NDArray warning is issued at most once; a call
\* changes no other field of the instance, whether it returns or raises.
C9_WarnedFlag ==
  /\ (nCalls = 0 => ~pad.warned)
  /\ [][ /\ pad'.warned = (pad.warned \/ (Len(data') > 0 /\ data'[1].kind = "nd"))
         /\ (Len(data') > 0 /\ data'[1].kind \in {"np", "list"}) =>
              pad'.warned = pad.warned
         /\ pad.warned => pad'.warned
         /\ [pad' EXCEPT !.warned = FALSE] = [pad EXCEPT !.warned = FALSE]
         /\ warnLog'.nd <= 1
         /\ warnLog'.nd > warnLog.nd =>
              (~pad.warned /\ Len(data') > 0 /\ data'[1].kind = "nd") ]_vars

\* the flag was set by an earlier call and a later call on numpy arrays,
\* which returned, left it set
C9_Witness ==
  /\ last.op = "Pad.__call__" /\ nCalls = 2 /\ last.warnedBefore /\ pad.warned
  /\ Len(data) > 0 /\ data[1].kind = "np" /\ last.exc = "none"

\* ------------------------------------------------------------- Stack runs
StackBatches == PadBatches

InitStack ==
  /\ pad = NoPad
  /\ padState = "none"
  /\ ctor = NoArgs
  /\ data \in StackBatches
  /\ last = NoLast
  /\ nCalls = 0
  /\ warnLog = [ctor |-> 0, nd |-> 0]
  /\ groupFn = <<>>

\* Stack()(data)
StackCall ==
  /\ last.op = "none"
  /\ LET r == StackRes(data)
     IN last' = [NoLast EXCEPT !.op = "Stack.__call__", !.exc = r.exc,
                               !.form = r.ty, !.batch = r.arr, !.items = r.items]
  /\ UNCHANGED <<pad, padState, ctor, data, nCalls, warnLog, groupFn>>

NextStack == StackCall

SpecStack == InitStack /\ [][NextStack]_vars

\* C4 as stated: for N samples of identical shape, NDArrays, numpy arrays or
\* lists of numbers, Stack returns one array of shape (N,) + sample shape
\* whose i-th slice is the i-th sample.
C4_AsStated ==
  (last.op = "Stack.__call__" /\ IsArrayBatch(data) /\ SameShapes(data)) =>
    /\ last.exc = "none"
    /\ last.form = "array"
    /\ last.batch.shape = <<Len(data)>> \o data[1].shape
    /\ \A t \in Indices(<<Len(data)>> \o data[1].shape) :
         last.batch.val[t] = data[t[1] + 1].val[Tail(t)]

\* ------------------------------------------------------------- Group runs
Functors == {"Stack", "Pad", "AsList"}

FnSeqs == UNION {[1..k -> Functors] : k \in 1..MaxAttrs}

AttrKinds == {"scalar", "list", "nd"}

\* attribute c of sample j: a label, a list of j numbers or an NDArray of j
\* numbers; an attribute beyond the sub-functors is a label
MkAttr(kind, j, c) ==
  LET id == (MaxN + 1) * (c - 1) + j
  IN IF kind = "scalar" THEN MkScalar("int", id)
     ELSE IF kind = "list" THEN MkArr("list", "int", <<j>>, id)
     ELSE MkArr("nd", "float", <<j>>, id)

\* batches of n tuples: the first of a attributes, the others of b
GroupBatches ==
  {[j \in 1..n |->
      [kind |-> "tuple", dtype |-> None, shape |-> <<>>, val |-> <<>>,
       items |-> [c \in 1..(IF j = 1 THEN a ELSE b) |->
                    MkAttr(IF c <= MaxAttrs THEN kinds[c] ELSE "scalar", j, c)]]] :
     n \in 1..MaxN, a \in 1..(MaxAttrs + 1), b \in 1..(MaxAttrs + 1),
     kinds \in [1..MaxAttrs -> AttrKinds]}

InitGroup ==
  /\ \E rl \in BOOLEAN, w \in BOOLEAN :
       /\ ctor = [NoArgs EXCEPT !.pad_val = [ty |-> "int", v |-> 0], !.ret_length = rl]
       /\ pad = [PadFields(ctor) EXCEPT !.warned = w]
  /\ padState = "ok"
  /\ data \in GroupBatches
  /\ last = NoLast
  /\ nCalls = 0
  /\ warnLog = [ctor |-> 0, nd |-> 0]
  /\ groupFn \in FnSeqs

\* Group(*groupFn)(data)
GroupCall ==
  /\ last.op = "none"
  /\ LET r == GroupRes(groupFn, data, pad)
     IN /\ last' = [NoLast EXCEPT !.op = "Group.__call__", !.exc = r.exc,
                                  !.form = IF r.exc = "none" THEN "tuple" ELSE "none",
                                  !.items = r.ret, !.log = r.log,
                                  !.warnedBefore = pad.warned]
        /\ pad' = [pad EXCEPT !.warned = r.warned]
  /\ UNCHANGED <<padState, ctor, data, nCalls, warnLog, groupFn>>

NextGroup == GroupCall

SpecGroup == InitGroup /\ [][NextGroup]_vars

\* C5 as stated: when any sample of the batch has a number of attributes
\* other than the number of sub-functors, the call fails with an assertion
\* error and returns no tuple.
C5_AsStated ==
  (last.op = "Group.__call__"
     /\ \E j \in 1..Len(data) : Len(data[j].items) # Len(groupFn)) =>
    (last.exc = "AssertionError" /\ last.form = "none")

\* C7: when every sample has exactly K attributes, the sub-functors are
\* called in index order, each once and on its own attribute column in
\* sample order, up to the first one that raises; a call that returns gives
\* a tuple of K elements whose i-th element is what sub-functor i returns
\* for column i, and it called all K sub-functors.
C7_GroupColumns ==
  (last.op = "Group.__call__"
     /\ \A j \in 1..Len(data) : Len(data[j].items) = Len(groupFn)) =>
    /\ Len(last.log) <= Len(groupFn)
    /\ \A i \in 1..Len(last.log) :
         /\ last.log[i].fn = i
         /\ Len(last.log[i].col) = Len(data)
         /\ \A j \in 1..Len(data) : last.log[i].col[j] = data[j].items[i]
    /\ last.exc = "none" =>
         /\ last.form = "tuple"
         /\ Len(last.items) = Len(groupFn)
         /\ Len(last.log) = Len(groupFn)
         /\ \A i \in 1..Len(groupFn) :
              last.items[i] =
                FnApply(groupFn[i], pad, [j \in 1..Len(data) |-> data[j].items[i]]).res
    /\ last.exc # "none" =>
         /\ last.form = "none"
         /\ Len(last.log) >= 1
         /\ \E w \in BOOLEAN :
              FnApply(groupFn[Len(last.log)], [pad EXCEPT !.warned = w],
                      last.log[Len(last.log)].col).exc = last.exc

\* Group(Pad, Stack) returned for two samples (list, label): the padded
\* lists and the stacked labels
C7_Witness ==
  /\ last.op = "Group.__call__" /\ last.exc = "none"
  /\ groupFn = <<"Pad", "Stack">> /\ Len(data) = 2
  /\ \A j \in 1..2 : Len(data[j].items) = 2
  /\ data[1].items[1].kind = "list" /\ data[1].items[2].kind = "scalar"
  /\ last.items[1].arr.shape = <<2, 2>>
  /\ last.items[2].arr.shape = <<2>>

====
